---- MODULE Spec2Model ----
(***************************************************************************)
(* One downloadPDF call of the PDF download handler, as a state machine.   *)
(* Every await of downloadPDF and of the three helpers it calls            *)
(* (downloadPDFViaDirectPost, extractAndDownloadPDF,                       *)
(* downloadPDFAlternative) is one step; the page, the download event, the  *)
(* HTTP endpoints and the filesystem answer nondeterministically.          *)
(***************************************************************************)
EXTENDS Integers, Sequences, FiniteSets, TLC

VARIABLES
    pc,                \* position inside downloadPDF
    result,            \* what the call resolved to: "pending", "true", "false", "thrown"
    args,              \* [grade, subject] the call was made with
    today,             \* the calendar day new Date() reports
    page,              \* the live page: its form#dlform, its PDF-related DOM, the id of its URL
    dirs,              \* the date directories that exist under downloadDir
    filePath,          \* the const filePath of downloadPDF (NoPath before line 40)
    attempted,         \* the strategies started so far, in order
    succeeded,         \* the strategy that persisted the file, 0 if none
    ret,               \* the value the last helper returned: "none", "true", "false"
    snap,              \* the formData read by the running helper
    resp,              \* the response the running helper holds
    requests,          \* every HTTP request sent, in order
    writes,            \* every file written, in order
    waiter1,           \* downloadPromise of Method 1: "none", "pending", "settled"
    waiter2,           \* downloadPromise of Method 2
    selIdx,            \* index of the next selector of browserDownloadSelectors
    downloadTriggered, \* the local flag of Method 2
    ui,                \* listener registrations, clicks and key presses, in order
    gotMagic,          \* some strategy obtained bytes that start with %PDF
    clock,             \* the instant new Date() reports: [hour since the epoch (UTC), tz offset]
    resolved,          \* the destination paths resolved so far: [hour, id, path]
    hang,              \* what the environment never delivers during this call
    mpc,               \* position inside main
    loopIndex,         \* the loop counter i of main (0-based)
    nValue,            \* const nValue of main
    downloadCount,     \* the three counters of main
    successCount,
    skipCount,
    started,           \* the combinations whose iteration has started, in order
    iter,              \* the running iteration: items counted, item clicked, downloadPDF called
    seen,              \* the kinds of failure met so far in the run
    strays,            \* a rejected promise nobody awaits is waiting to be reported
    handles,           \* let browser, context, page of main, and the credentials found
    callers,           \* the running ensureDirectoryExists calls
    processEnv,        \* process.env: DEBUG and LOG_LEVEL ("" when unset)
    threshold,         \* const threshold of the logger created
    logCalls           \* the calls made on the logger, in order, and whether each wrote a line

\* the state of one downloadPDF call
callVars == <<pc, result, args, today, page, dirs, filePath, attempted, succeeded, ret,
              snap, resp, requests, writes, waiter1, waiter2, selIdx,
              downloadTriggered, ui, gotMagic>>

\* the state of the path resolver run on its own
resolverVars == <<clock, resolved>>

\* the state of main
mainVars == <<mpc, loopIndex, nValue, downloadCount, successCount, skipCount, started, iter,
              seen, strays, handles>>

\* the state of concurrent ensureDirectoryExists calls
raceVars == <<callers>>

\* the state of the logger
logVars == <<processEnv, threshold, logCalls>>

\* everything outside the downloadPDF call
aroundVars == <<resolverVars, hang, mainVars, raceVars, logVars>>

vars == <<callVars, aroundVars>>

-----------------------------------------------------------------------------
(* Bounds and value sets                                                    *)

MaxDay == 2

Days == 1..MaxDay

\* browserDownloadSelectors has six entries
NumSelectors == 6

Grades == {"g1"}
Subjects == {"math"}

\* the id query parameter of page.url(): "" when there is none
UrlIds == {"", "42"}

\* an input of form#dlform: absent, hidden with an empty value, hidden with a
\* value, or of another type (text, submit ...) with a value
FieldKinds == {"absent", "empty", "hidden", "visible"}

NoForm == [present |-> FALSE, id |-> "absent", token |-> "absent"]

Forms == {NoForm} \cup [present : {TRUE}, id : FieldKinds, token : FieldKinds]

\* PDF-related content of the rendered page
Doms == { {}, {"link"}, {"marker"}, {"embed", "iframe"}, {"embed_empty", "link"},
          {"iframe", "object"}, {"object_empty", "link"} }

CtPdf == <<"application/pdf">>
ContentTypes == { <<>>, <<"text/html">>, CtPdf, <<"application/pdf", "charset=binary">> }

PdfBody == <<"%", "P", "D", "F", "-", "1">>
Bodies == { <<>>, <<"%", "P", "D">>, <<"<", "h", "t", "m", "l">>, PdfBody }

NoPath == [dir |-> 0, name |-> <<>>]
NoSnap == [isNull |-> TRUE, id |-> "missing", token |-> "missing"]
NoResp == [status |-> 0, ctype |-> <<>>, body |-> <<>>, accepted |-> FALSE]

Responses == [status : {200}, ctype : ContentTypes, body : Bodies]
                 \cup {[status |-> 500, ctype |-> <<"text/html">>, body |-> <<"<", "h", "t", "m", "l">>]}

-----------------------------------------------------------------------------
(* Pure helpers                                                             *)

Magic == <<"%", "P", "D", "F">>

\* buffer.slice(0, 4) / buffer.toString('utf8', 0, 4)
Head4(buffer) == SubSeq(buffer, 1, IF Len(buffer) < 4 THEN Len(buffer) ELSE 4)

\* contentType.includes('application/pdf')
IncludesPdf(contentType) == \E i \in 1..Len(contentType) : contentType[i] = "application/pdf"

\* response.ok()
ResponseOk(status) == status >= 200 /\ status <= 299

\* the value a snapshot holds for an input of the given kind
FieldValue(kind, value) ==
    CASE kind = "absent" -> "missing"
      [] kind = "empty" -> ""
      [] OTHER -> value

\* page.evaluate of downloadPDFViaDirectPost: every named input
DirectSnapshot(form) ==
    IF ~form.present THEN NoSnap
    ELSE [isNull |-> FALSE,
          id |-> FieldValue(form.id, "42"),
          token |-> FieldValue(form.token, "abc")]

\* page.evaluate of downloadPDFAlternative: input[type="hidden"] only
HiddenOnly(kind) == IF kind = "visible" THEN "absent" ELSE kind

AltSnapshot(form) ==
    IF ~form.present THEN NoSnap
    ELSE [isNull |-> FALSE,
          id |-> FieldValue(HiddenOnly(form.id), "42"),
          token |-> FieldValue(HiddenOnly(form.token), "abc")]

\* JavaScript truthiness of a snapshot entry
Truthy(v) == v \notin {"missing", ""}

\* the check without its id/token part
DirectFormOkFormOnly(fd) == ~fd.isNull

\* if (!formData || !formData.id || !formData.token) return false
DirectFormOk(fd) == ~(fd.isNull \/ ~Truthy(fd.id) \/ ~Truthy(fd.token))

\* if (!formData) throw
AltFormOk(fd) == ~fd.isNull

\* if (!contentType.includes('application/pdf') && head !== '%PDF') return false
DirectAccepts(contentType, buffer) ==
    ~(~IncludesPdf(contentType) /\ Head4(buffer) # Magic)

\* if (buffer.length === 0 || buffer.toString('utf8', 0, 4) !== '%PDF') throw
AltAccepts(buffer) == ~(Len(buffer) = 0 \/ Head4(buffer) # Magic)

\* extractAndDownloadPDF writes response.data as it came
ExtractAccepts(buffer) == TRUE

\* download.saveAs writes whatever the browser downloaded
DownloadAccepts(buffer) == TRUE

\* currentDate.toISOString().split('T')[0]
DateString(day) == <<"day", day>>

\* a file name that never carries the id
IdSuffixNone(idParam) == <<>>

\* idParam ? `-${idParam}` : ''
IdSuffix(idParam) == IF idParam # "" THEN <<"-", idParam>> ELSE <<>>

\* `${grade}-${subject}-${dateString}${idSuffix}.pdf`
Filename(grade, subject, day, idParam) ==
    <<grade, "-", subject, "-", DateString(day)>> \o IdSuffix(idParam) \o <<".pdf">>

\* path.join(path.join(downloadDir, dateString), filename)
DestPath(a, day, idParam) ==
    [dir |-> day, name |-> Filename(a.grade, a.subject, day, idParam)]

\* the page.evaluate of extractAndDownloadPDF: embed, iframe, object, link
NoInfo == [url |-> "", method |-> "none"]

\* a scan that looks at the hyperlinks first
ScanDomLinksFirst(dom) ==
    IF "link" \in dom
    THEN [url |-> "u_link", method |-> "link"]
    ELSE IF dom \cap {"embed", "embed_empty"} # {}
    THEN [url |-> IF "embed_empty" \in dom THEN "" ELSE "u_embed", method |-> "embed"]
    ELSE IF "iframe" \in dom
    THEN [url |-> "u_iframe", method |-> "iframe"]
    ELSE IF dom \cap {"object", "object_empty"} # {}
    THEN [url |-> IF "object_empty" \in dom THEN "" ELSE "u_object", method |-> "object"]
    ELSE NoInfo

ScanDom(dom) ==
    IF dom \cap {"embed", "embed_empty"} # {}
    THEN [url |-> IF "embed_empty" \in dom THEN "" ELSE "u_embed", method |-> "embed"]
    ELSE IF "iframe" \in dom
    THEN [url |-> "u_iframe", method |-> "iframe"]
    ELSE IF dom \cap {"object", "object_empty"} # {}
    THEN [url |-> IF "object_empty" \in dom THEN "" ELSE "u_object", method |-> "object"]
    ELSE IF "link" \in dom
    THEN [url |-> "u_link", method |-> "link"]
    ELSE NoInfo

\* pageContent.includes('application/pdf') || pageContent.includes('embed')
IsPreview(dom) ==
    dom \cap {"embed", "embed_empty", "object", "object_empty", "marker"} # {}

\* where a click on the site's download button can leave the page
AfterClick(p) ==
    {p} \cup {[form |-> NoForm, dom |-> d, urlId |-> ""] : d \in Doms}

-----------------------------------------------------------------------------
(* Control flow of downloadPDF: returns and catch clauses                   *)

Goto(p) == [pc |-> p, result |-> "pending"]
Return(v) == [pc |-> "done", result |-> v]

\* the direct POST without its return true
AfterDirectPostNoReturn(ok) == Goto("m1_listen")

\* if (ok) return true; otherwise fall out of the try
AfterDirectPost(ok) == IF ok = "true" THEN Return("true") ELSE Goto("m1_listen")

\* catch (e) of the direct POST
DirectCatch == Goto("m1_listen")

\* a saved download that falls through to Method 2c instead of returning
AfterDownloadSavedFallThrough == Goto("ex_scan")

\* log.info('Saved via ...'); return true
AfterDownloadSaved == Return("true")

\* catch (downloadEventError): Method 2 starts
DownloadEventCatch == Goto("m2_click")

\* catch (downloadWaitError): falls out to Method 2c
DownloadWaitCatch == Goto("ex_scan")

\* a failed extraction that goes on to Method 3
AfterExtractTriesAlternative(ok) == IF ok = "true" THEN Return(ok) ELSE Goto("alt_snapshot")

\* return await extractAndDownloadPDF(...)
AfterExtract(ok) == Return(ok)

\* a preview catch that starts over with Method 1
PreviewCatchRetry == Goto("m1_listen")

\* catch (previewError): Method 3
PreviewCatch == Goto("alt_snapshot")

\* return await downloadPDFAlternative(...)
AfterAlternative(ok) == Return(ok)

\* downloadPDF without its outer try/catch
OuterCatchRethrow == Return("thrown")

\* catch (error) of downloadPDF: return false
OuterCatch == Return("false")

\* the state as one record, and the step that installs a new one
Cur ==
    [pc |-> pc, result |-> result, args |-> args, today |-> today, page |-> page,
     dirs |-> dirs, filePath |-> filePath, attempted |-> attempted,
     succeeded |-> succeeded, ret |-> ret, snap |-> snap, resp |-> resp,
     requests |-> requests, writes |-> writes, waiter1 |-> waiter1,
     waiter2 |-> waiter2, selIdx |-> selIdx, downloadTriggered |-> downloadTriggered,
     ui |-> ui, gotMagic |-> gotMagic]

Become(s) ==
    /\ pc' = s.pc /\ result' = s.result /\ args' = s.args /\ today' = s.today
    /\ page' = s.page /\ dirs' = s.dirs /\ filePath' = s.filePath
    /\ attempted' = s.attempted /\ succeeded' = s.succeeded /\ ret' = s.ret
    /\ snap' = s.snap /\ resp' = s.resp /\ requests' = s.requests
    /\ writes' = s.writes /\ waiter1' = s.waiter1 /\ waiter2' = s.waiter2
    /\ selIdx' = s.selIdx /\ downloadTriggered' = s.downloadTriggered
    /\ ui' = s.ui /\ gotMagic' = s.gotMagic
    /\ UNCHANGED aroundVars

\* control moves to a return or a catch clause
Jump(s, t) == [s EXCEPT !.pc = t.pc, !.result = t.result]

\* a helper returns v to downloadPDF, which resumes at p
Returns(s, v, p) == [s EXCEPT !.ret = v, !.pc = p]

\* strategy k starts
Attempt(s, k) == [s EXCEPT !.attempted = Append(@, k)]

\* fs.writeFile(path, buffer) / download.saveAs(path) by strategy k succeeded
Written(s, k, path, ctype, buffer) ==
    [s EXCEPT !.writes = Append(@, [by |-> k, path |-> path, ctype |-> ctype, body |-> buffer]),
              !.succeeded = k]

\* an HTTP request of strategy k went out, built from the snapshot fd;
\* status stays 0 while no response has come (or none ever comes)
Sent(s, k, method, fd) ==
    [s EXCEPT !.requests = Append(@, [by |-> k, method |-> method, form |-> fd,
                                      status |-> 0])]

\* the last request went to this address
Addressed(s, url) ==
    [s EXCEPT !.requests = [@ EXCEPT ![Len(@)] =
        [by |-> @.by, method |-> @.method, form |-> @.form, status |-> @.status,
         url |-> url]]]

\* the response to the last request arrived with this status
Answered(s, status) ==
    [s EXCEPT !.requests = [@ EXCEPT ![Len(@)] = [@ EXCEPT !.status = status]]]

\* bytes were obtained (a response body or a browser download)
Obtained(s, buffer) == [s EXCEPT !.gotMagic = @ \/ Head4(buffer) = Magic]

\* a helper's frame is left: its locals are gone
Leave(s) == [s EXCEPT !.ret = "none", !.snap = NoSnap, !.resp = NoResp]

\* a registration that never happens
ListenForgotten(s, k) == s

\* page.waitForEvent('download', ...) registers the listener of strategy k
Listen(s, k) == [s EXCEPT !.ui = Append(@, [kind |-> "listen", by |-> k, sel |-> 0])]

\* a click or key press of strategy k (selector i of the viewer list)
Clicked(s, k, kind, i) == [s EXCEPT !.ui = Append(@, [kind |-> kind, by |-> k, sel |-> i])]

\* ensureDirectoryExists(dir): fs.access, else fs.mkdir; the set holds the
\* states it can complete in, and mkdir can also throw
EnsureDirectoryExists(s, dir) ==
    IF dir \in s.dirs THEN {s} ELSE {[s EXCEPT !.dirs = @ \cup {dir}]}

MkdirCanThrow(s, dir) == dir \notin s.dirs

\* the resolver is not run on its own
ResolverIdle == clock = [hour |-> 0, tz |-> 0] /\ resolved = <<>>

\* main is not running
NoIteration == [itemCount |-> 0 - 1, clicked |-> FALSE, nth |-> 0, called |-> FALSE,
                skipAtStart |-> 0]

NoHandles == [browser |-> "null", context |-> "null", page |-> "null", creds |-> "unread"]

MainIdle ==
    /\ handles = NoHandles
    /\ mpc = "off" /\ loopIndex = 0 /\ nValue = 1
    /\ downloadCount = 0 /\ successCount = 0 /\ skipCount = 0
    /\ started = <<>> /\ iter = NoIteration /\ seen = {} /\ strays = FALSE

\* ensureDirectoryExists is not called on its own
RaceIdle == callers = <<>>

\* no logger has been created
NoLogger == 0 - 1

\* the logger is not modelled
LogIdle == processEnv = [DEBUG |-> "", LOG_LEVEL |-> ""] /\ threshold = NoLogger /\ logCalls = <<>>

\* the things a downloadPDF call waits for
HangKinds == {"form", "idle", "event", "http", "transfer"}

\* the waits that reject on their own after a while: locator.waitFor (line 26),
\* waitForLoadState (line 79) and api.post (line 190) after Playwright's
\* default timeout, waitForEvent after its timeout option (lines 57, 87),
\* axios after its timeout option (lines 276, 383); download.saveAs
\* (lines 62, 133) takes no timeout and is not among them
TimedKinds == {"form", "idle", "event", "http"}

\* the awaited thing happens
Settles(kind) == kind \notin hang

\* the awaiting call rejects: with an error of its own, or by its timeout
Rejects(kind) == kind \notin hang \/ kind \in TimedKinds

-----------------------------------------------------------------------------
(* Initial state: downloadPDF(page, grade, subject, downloadDir) is called  *)

Init ==
    /\ pc = "start"
    /\ result = "pending"
    /\ args \in [grade : Grades, subject : Subjects]
    /\ today = 1
    /\ page \in [form : Forms, dom : {{}, {"link"}}, urlId : UrlIds]
    /\ dirs \in {{}, {1}}
    /\ filePath = NoPath
    /\ attempted = <<>>
    /\ succeeded = 0
    /\ ret = "none"
    /\ snap = NoSnap
    /\ resp = NoResp
    /\ requests = <<>>
    /\ writes = <<>>
    /\ waiter1 = "none"
    /\ waiter2 = "none"
    /\ selIdx = 1
    /\ downloadTriggered = FALSE
    /\ ui = <<>>
    /\ gotMagic = FALSE
    /\ ResolverIdle
    /\ hang = {}
    /\ MainIdle
    /\ RaceIdle
    /\ LogIdle

-----------------------------------------------------------------------------
(* downloadPDF, lines 22-51                                                 *)

\* await downloadForm.waitFor({ state: 'visible' })
WaitForm ==
    /\ pc = "start"
    /\ \/ Settles("form") /\ Become([Cur EXCEPT !.pc = "resolve"])
       \/ Rejects("form") /\ Become(Jump(Cur, OuterCatch))

\* filename, dateDir, ensureDirectoryExists(dateDir), filePath
ResolvePath ==
    /\ pc = "resolve"
    /\ \/ \E s \in EnsureDirectoryExists(Cur, today) :
              Become([s EXCEPT !.filePath = DestPath(args, today, page.urlId),
                               !.pc = "dp_snapshot"])
       \/ /\ MkdirCanThrow(Cur, today)
          /\ Become(Jump(Cur, OuterCatch))

\* a Direct POST that submits the form through its button first
DirectPostSnapshotClicks ==
    /\ pc = "dp_snapshot"
    /\ LET s0 == Clicked(Attempt(Cur, 1), 1, "button", 0)
           fd == DirectSnapshot(page.form)
       IN \/ Become(Jump(Leave(s0), DirectCatch))
          \/ Become(IF DirectFormOk(fd)
                    THEN [s0 EXCEPT !.snap = fd, !.pc = "dp_send"]
                    ELSE Returns([s0 EXCEPT !.snap = fd], "false", "dp_ret"))

\* downloadPDFViaDirectPost is called: page.evaluate and the id/token check
DirectPostSnapshot ==
    /\ pc = "dp_snapshot"
    /\ LET s0 == Attempt(Cur, 1)
           fd == DirectSnapshot(page.form)
       IN \/ Become(Jump(Leave(s0), DirectCatch))
          \/ Become(IF DirectFormOk(fd)
                    THEN [s0 EXCEPT !.snap = fd, !.pc = "dp_send"]
                    ELSE Returns([s0 EXCEPT !.snap = fd], "false", "dp_ret"))

\* api.post, response.ok(), the PDF check and fs.writeFile
DirectPostSend ==
    /\ pc = "dp_send"
    /\ LET s0 == Sent(Cur, 1, "POST", snap)
       IN \/ Rejects("http") /\ Become(Jump(Leave(s0), DirectCatch))
          \/ \E r \in Responses :
               /\ Settles("http")
               /\ LET acc == ResponseOk(r.status) /\ DirectAccepts(r.ctype, r.body)
                      s1 == [Answered(s0, r.status)
                                 EXCEPT !.resp = [status |-> r.status, ctype |-> r.ctype,
                                                  body |-> r.body, accepted |-> acc]]
                      s2 == IF ResponseOk(r.status) THEN Obtained(s1, r.body) ELSE s1
                  IN IF acc
                     THEN \/ Become(Returns(Written(s2, 1, filePath, r.ctype, r.body),
                                            "true", "dp_ret"))
                          \/ Become(Jump(Leave(s2), DirectCatch))
                     ELSE Become(Returns(s2, "false", "dp_ret"))

\* if (ok) { return true }
DirectPostReturn ==
    /\ pc = "dp_ret"
    /\ Become(Jump(Leave(Cur), AfterDirectPost(ret)))

-----------------------------------------------------------------------------
(* downloadPDF, lines 53-69: Method 1, the native download event            *)

\* const downloadPromise = page.waitForEvent('download', { timeout: 5000 })
M1Listen ==
    /\ pc = "m1_listen"
    /\ Become([Listen(Attempt(Cur, 2), 2) EXCEPT !.waiter1 = "pending", !.pc = "m1_click"])

\* await downloadButton.click()
M1Click ==
    /\ pc = "m1_click"
    /\ \/ \E p \in AfterClick(page) :
              Become([Clicked(Cur, 2, "button", 0) EXCEPT !.page = p, !.pc = "m1_await"])
       \/ Become(Jump(Cur, DownloadEventCatch))

\* const download = await downloadPromise; await download.saveAs(filePath)
M1Await ==
    /\ pc = "m1_await"
    /\ LET s0 == [Cur EXCEPT !.waiter1 = "settled"]
       IN \/ Rejects("event") /\ Become(Jump(s0, DownloadEventCatch))
          \/ /\ Settles("event") /\ ~Settles("transfer") /\ ~Rejects("transfer")
             /\ Become([s0 EXCEPT !.pc = "m1_save"])     \* saveAs stays pending
          \/ \E b \in Bodies :
               /\ Settles("event") /\ Settles("transfer")
               /\ LET s1 == Obtained(s0, b)
                  IN IF DownloadAccepts(b)
                     THEN \/ Become([Written(s1, 2, filePath, <<>>, b) EXCEPT !.pc = "m1_ret"])
                          \/ Become(Jump(s1, DownloadEventCatch))
                     ELSE Become(Jump(s1, DownloadEventCatch))

\* log.info('Saved via ...'); return true  (Method 1 and Method 2)
SavedReturn ==
    /\ pc \in {"m1_ret", "m2_ret"}
    /\ Become(Jump(Cur, AfterDownloadSaved))

-----------------------------------------------------------------------------
(* downloadPDF, lines 70-149: Method 2, the PDF preview                     *)

\* await downloadButton.click()
M2Click ==
    /\ pc = "m2_click"
    /\ LET s0 == Attempt(Cur, 3)
       IN \/ \E p \in AfterClick(page) :
                 Become([Clicked(s0, 3, "button", 0) EXCEPT !.page = p, !.pc = "m2_settle"])
          \/ Become(Jump(s0, PreviewCatch))

\* waitForLoadState('networkidle'), page.content(), the preview test and
\* the download listener of the preview
M2Settle ==
    /\ pc = "m2_settle"
    /\ \/ Rejects("idle") /\ Become(Jump(Cur, PreviewCatch))
       \/ Settles("idle") /\
          Become(IF IsPreview(page.dom)
                 THEN [Listen(Cur, 3) EXCEPT !.waiter2 = "pending",
                                             !.downloadTriggered = FALSE,
                                             !.selIdx = 1, !.pc = "m2_probe"]
                 ELSE [Cur EXCEPT !.pc = "ex_scan"])

\* downloadBtn.first().click() threw for selector i: catch (err) { }; of the
\* viewer clicks that threw, the log keeps the first
ClickThrew(s, i) ==
    IF \E n \in 1..Len(s.ui) : s.ui[n].kind = "viewer_failed"
    THEN s
    ELSE Clicked(s, 3, "viewer_failed", i)

\* one round of for (const selector of browserDownloadSelectors)
NextSelector(s) ==
    IF s.selIdx < NumSelectors
    THEN [s EXCEPT !.selIdx = @ + 1]
    ELSE [s EXCEPT !.selIdx = @ + 1, !.pc = "m2_hotkey"]

\* a probing loop without the break after a click
M2ProbeNoBreak ==
    /\ pc = "m2_probe"
    /\ selIdx <= NumSelectors
    /\ \/ Become(NextSelector(Cur))
       \/ Become(NextSelector(ClickThrew(Cur, selIdx)))
       \/ Become(NextSelector([Clicked(Cur, 3, "viewer", selIdx)
                                   EXCEPT !.downloadTriggered = TRUE]))

\* try { count(); if (count > 0) { click(); downloadTriggered = true; break } } catch { }
M2Probe ==
    /\ pc = "m2_probe"
    /\ selIdx <= NumSelectors
    /\ \/ Become(NextSelector(Cur))     \* count is 0, or count() throws
       \/ Become(NextSelector(ClickThrew(Cur, selIdx)))     \* matched, click() throws
       \/ Become([Clicked(Cur, 3, "viewer", selIdx)     \* clicked: break
                      EXCEPT !.downloadTriggered = TRUE, !.pc = "m2_hotkey"])

\* a hotkey step that forgets downloadTriggered = true
M2HotkeyNoFlag ==
    /\ pc = "m2_hotkey"
    /\ IF downloadTriggered
       THEN Become([Cur EXCEPT !.pc = "m2_await"])
       ELSE Become([Clicked(Cur, 3, "key", 0) EXCEPT !.pc = "m2_await"])

\* if (!downloadTriggered) { page.keyboard.press(...) }
M2Hotkey ==
    /\ pc = "m2_hotkey"
    /\ IF downloadTriggered
       THEN Become([Cur EXCEPT !.pc = "m2_await"])
       ELSE \/ Become([Clicked(Cur, 3, "key", 0)
                           EXCEPT !.downloadTriggered = TRUE, !.pc = "m2_await"])
            \/ Become([Clicked(Cur, 3, "key_failed", 0) EXCEPT !.pc = "m2_await"])

\* if (downloadTriggered) { await downloadPromise; saveAs } and the fall to 2c
M2Await ==
    /\ pc = "m2_await"
    /\ IF downloadTriggered
       THEN LET s0 == [Cur EXCEPT !.waiter2 = "settled"]
            IN \/ Rejects("event") /\ Become(Jump(s0, DownloadWaitCatch))
               \/ /\ Settles("event") /\ ~Settles("transfer") /\ ~Rejects("transfer")
                  /\ Become([s0 EXCEPT !.pc = "m2_save"])     \* saveAs stays pending
               \/ \E b \in Bodies :
                    /\ Settles("event") /\ Settles("transfer")
                    /\ LET s1 == Obtained(s0, b)
                       IN IF DownloadAccepts(b)
                          THEN \/ Become([Written(s1, 3, filePath, <<>>, b) EXCEPT !.pc = "m2_ret"])
                               \/ Become(Jump(s1, DownloadWaitCatch))
                          ELSE Become(Jump(s1, DownloadWaitCatch))
       ELSE Become([Cur EXCEPT !.pc = "ex_scan"])

-----------------------------------------------------------------------------
(* extractAndDownloadPDF, lines 334-415                                     *)

\* the call from line 144 and the page.evaluate that scans the DOM
ExtractScan ==
    /\ pc = "ex_scan"
    /\ LET s0 == Attempt(Cur, 4)
       IN \/ Become(Returns(s0, "false", "ex_ret"))
          \/ Become(IF ScanDom(page.dom).url # ""
                    THEN [s0 EXCEPT !.pc = "ex_get"]
                    ELSE Returns(s0, "false", "ex_ret"))

\* cookies, axios.get, the path, ensureDirectoryExists and fs.writeFile
ExtractGet ==
    /\ pc = "ex_get"
    /\ LET s0 == Addressed(Sent(Cur, 4, "GET", NoSnap), ScanDom(page.dom).url)
           path == DestPath(args, today, page.urlId)
       IN \/ Rejects("http") /\ Become(Returns(s0, "false", "ex_ret"))
          \/ \E r \in Responses :
               /\ Settles("http")
               /\ ResponseOk(r.status)
               /\ LET s1 == Obtained([Answered(s0, r.status)
                                          EXCEPT !.resp = [status |-> r.status, ctype |-> r.ctype,
                                              body |-> r.body, accepted |-> ExtractAccepts(r.body)]],
                                     r.body)
                  IN IF ExtractAccepts(r.body)
                     THEN \/ \E s2 \in EnsureDirectoryExists(s1, today) :
                                 \/ Become(Returns(Written(s2, 4, path, r.ctype, r.body),
                                                   "true", "ex_ret"))
                                 \/ Become(Returns(s2, "false", "ex_ret"))
                          \/ /\ MkdirCanThrow(s1, today)
                             /\ Become(Returns(s1, "false", "ex_ret"))
                     ELSE Become(Returns(s1, "false", "ex_ret"))

\* return await extractAndDownloadPDF(...)
ExtractReturn ==
    /\ pc = "ex_ret"
    /\ Become(Jump(Leave(Cur), AfterExtract(ret)))

-----------------------------------------------------------------------------
(* downloadPDFAlternative, lines 226-310                                    *)

\* the call from line 148, Promise.all([page.evaluate, cookies]), if (!formData) throw
AlternativeSnapshot ==
    /\ pc = "alt_snapshot"
    /\ LET s0 == Attempt(Cur, 5)
           fd == AltSnapshot(page.form)
       IN \/ Become(Returns(s0, "false", "alt_ret"))
          \/ Become(IF AltFormOk(fd)
                    THEN [s0 EXCEPT !.snap = fd, !.pc = "alt_post"]
                    ELSE Returns([s0 EXCEPT !.snap = fd], "false", "alt_ret"))

\* axios.post, the %PDF check, the path, ensureDirectoryExists and fs.writeFile
AlternativePost ==
    /\ pc = "alt_post"
    /\ LET s0 == Sent(Cur, 5, "POST", snap)
           path == DestPath(args, today, page.urlId)
       IN \/ Rejects("http") /\ Become(Returns(s0, "false", "alt_ret"))
          \/ \E r \in Responses :
               /\ Settles("http")
               /\ ResponseOk(r.status)
               /\ LET s1 == Obtained([Answered(s0, r.status)
                                          EXCEPT !.resp = [status |-> r.status, ctype |-> r.ctype,
                                              body |-> r.body, accepted |-> AltAccepts(r.body)]],
                                     r.body)
                  IN IF AltAccepts(r.body)
                     THEN \/ \E s2 \in EnsureDirectoryExists(s1, today) :
                                 \/ Become(Returns(Written(s2, 5, path, r.ctype, r.body),
                                                   "true", "alt_ret"))
                                 \/ Become(Returns(s2, "false", "alt_ret"))
                          \/ /\ MkdirCanThrow(s1, today)
                             /\ Become(Returns(s1, "false", "alt_ret"))
                     ELSE Become(Returns(s1, "false", "alt_ret"))

\* return await downloadPDFAlternative(...)
AlternativeReturn ==
    /\ pc = "alt_ret"
    /\ Become(Jump(Leave(Cur), AfterAlternative(ret)))

-----------------------------------------------------------------------------
\* the calendar day changes while the call is running
Tick ==
    /\ pc # "done"
    /\ today < MaxDay
    /\ today' = today + 1
    /\ UNCHANGED <<pc, result, args, page, dirs, filePath, attempted, succeeded, ret,
                   snap, resp, requests, writes, waiter1, waiter2, selIdx,
                   downloadTriggered, ui, gotMagic>>
    /\ UNCHANGED aroundVars

Next ==
    \/ WaitForm
    \/ ResolvePath
    \/ DirectPostSnapshot
    \/ DirectPostSend
    \/ DirectPostReturn
    \/ M1Listen
    \/ M1Click
    \/ M1Await
    \/ SavedReturn
    \/ M2Click
    \/ M2Settle
    \/ M2Probe
    \/ M2Hotkey
    \/ M2Await
    \/ ExtractScan
    \/ ExtractGet
    \/ ExtractReturn
    \/ AlternativeSnapshot
    \/ AlternativePost
    \/ AlternativeReturn
    \/ Tick

Spec == Init /\ [][Next]_vars

-----------------------------------------------------------------------------
(* The path resolver of downloadPDF (lines 28-40) run repeatedly while the  *)
(* clock advances: the same acquisition is repeated by the caller           *)

MaxHour == 30
HoursPerTick == 4
MaxResolves == 3

\* offsets of the local time zone from UTC, in hours
TzOffsets == {0, 8, 0 - 4}

\* toISOString() reports the date in UTC
UtcDay(hour) == hour \div 24

\* no downloadPDF call is running
CallIdle ==
    /\ pc = "idle" /\ result = "pending"
    /\ filePath = NoPath /\ attempted = <<>> /\ succeeded = 0 /\ ret = "none"
    /\ snap = NoSnap /\ resp = NoResp /\ requests = <<>> /\ writes = <<>>
    /\ waiter1 = "none" /\ waiter2 = "none" /\ selIdx = 1
    /\ downloadTriggered = FALSE /\ ui = <<>> /\ gotMagic = FALSE

InitResolve ==
    /\ CallIdle
    /\ args \in [grade : Grades, subject : Subjects]
    /\ page \in [form : {NoForm}, dom : {{}}, urlId : UrlIds]
    /\ clock \in [hour : {0}, tz : TzOffsets]
    /\ today = UtcDay(0)
    /\ dirs = {}
    /\ resolved = <<>>
    /\ hang = {}
    /\ MainIdle
    /\ RaceIdle
    /\ LogIdle

\* time passes between two runs
ClockAdvance ==
    /\ clock.hour + HoursPerTick <= MaxHour
    /\ clock' = [clock EXCEPT !.hour = @ + HoursPerTick]
    /\ today' = UtcDay(clock.hour + HoursPerTick)
    /\ UNCHANGED <<pc, result, args, page, dirs, filePath, attempted, succeeded, ret,
                   snap, resp, requests, writes, waiter1, waiter2, selIdx,
                   downloadTriggered, ui, gotMagic, resolved, hang, mainVars, raceVars, logVars>>

\* the caller opens the detail page of another item
OpenOtherItem ==
    /\ \E id \in UrlIds \ {page.urlId} : page' = [page EXCEPT !.urlId = id]
    /\ UNCHANGED <<pc, result, args, today, dirs, filePath, attempted, succeeded, ret,
                   snap, resp, requests, writes, waiter1, waiter2, selIdx,
                   downloadTriggered, ui, gotMagic, resolverVars, hang, mainVars, raceVars, logVars>>

\* dateString, idSuffix, filename, dateDir, ensureDirectoryExists, filePath
ResolveAgain ==
    /\ Len(resolved) < MaxResolves
    /\ filePath' = DestPath(args, today, page.urlId)
    /\ dirs' = dirs \cup {today}
    /\ resolved' = Append(resolved, [hour |-> clock.hour, id |-> page.urlId,
                                     path |-> DestPath(args, today, page.urlId)])
    /\ UNCHANGED <<pc, result, args, today, page, attempted, succeeded, ret,
                   snap, resp, requests, writes, waiter1, waiter2, selIdx,
                   downloadTriggered, ui, gotMagic, clock, hang, mainVars, raceVars, logVars>>

NextResolve == ClockAdvance \/ OpenOtherItem \/ ResolveAgain

SpecResolve == InitResolve /\ [][NextResolve]_vars

-----------------------------------------------------------------------------
(* main, from the loop over the filter combinations on (index.js lines      *)
(* 73-128), with navigateToFilteredPage, clickNthItem and downloadPDF as    *)
(* the calls main awaits                                                    *)

MaxWorkingDays == 2
MaxItems == 2

GRADES == <<"P1", "P2", "P3", "P4", "P5", "P6">>

\* the keys of SUBJECTS in insertion order, written as the values they map to
SUBJECTS == <<"Chinese", "English", "Maths", "GS">>

RECURSIVE ForSubjects(_, _, _)
\* for (const subjectChinese of Object.keys(SUBJECTS)) combinations.push(...)
ForSubjects(combinations, grade, k) ==
    IF k > Len(SUBJECTS)
    THEN combinations
    ELSE ForSubjects(Append(combinations, [grade |-> grade, subject |-> SUBJECTS[k]]),
                     grade, k + 1)

RECURSIVE ForGrades(_, _)
\* for (const grade of GRADES) { ... }
ForGrades(combinations, g) ==
    IF g > Len(GRADES)
    THEN combinations
    ELSE ForGrades(ForSubjects(combinations, GRADES[g], 1), g + 1)

getFilterCombinations == ForGrades(<<>>, 1)

\* return Math.max(1, workingDays)
getNValue(workingDays) == IF workingDays > 1 THEN workingDays ELSE 1

\* an out-of-range test that lets every index through
OutOfRangeNever(n, itemCount) == FALSE

\* if (itemCount === 0) return false; if (n > itemCount) return false
OutOfRange(n, itemCount) == itemCount = 0 \/ n > itemCount

\* everything outside main
outsideMain == <<callVars, resolverVars, hang, raceVars, logVars>>

\* what the loop over the combinations leaves alone
outsideLoop == <<handles, outsideMain>>

\* no downloadPDF call is modelled step by step
CallParked ==
    /\ CallIdle
    /\ args = [grade |-> "g1", subject |-> "math"]
    /\ today = 1
    /\ page = [form |-> NoForm, dom |-> {}, urlId |-> ""]

InitMain ==
    /\ CallParked /\ dirs = {} /\ ResolverIdle /\ hang = {} /\ RaceIdle /\ LogIdle
    /\ handles = NoHandles
    /\ mpc = "env" /\ loopIndex = 0
    /\ nValue \in {getNValue(w) : w \in 0..MaxWorkingDays}
    /\ downloadCount = 0 /\ successCount = 0 /\ skipCount = 0
    /\ started = <<>> /\ iter = NoIteration /\ seen = {} /\ strays = FALSE

\* the counters and the log of the loop
loopVars == <<loopIndex, nValue, downloadCount, successCount, skipCount, started, iter,
              seen, strays>>

\* main moves on to the given step with the given handles
Proceed(step, h) ==
    /\ mpc' = step
    /\ handles' = h
    /\ UNCHANGED loopVars
    /\ UNCHANGED outsideMain

\* lines 28-40: a missing variable throws into the catch of line 130, the
\* placeholder user name returns; both go through finally
ValidateEnv ==
    /\ mpc = "env"
    /\ \E c \in {"missing", "placeholder", "real"} :
         Proceed(IF c = "real" THEN "launch" ELSE "finally", [handles EXCEPT !.creds = c])

\* browser = await chromium.launch(...)
LaunchBrowser ==
    /\ mpc = "launch"
    /\ \/ Proceed("context", [handles EXCEPT !.browser = "open"])
       \/ Proceed("finally", handles)

\* context = await browser.newContext(...)
NewContext ==
    /\ mpc = "context"
    /\ \/ Proceed("newpage", [handles EXCEPT !.context = "open"])
       \/ Proceed("finally", handles)

\* page = await context.newPage()
NewPage ==
    /\ mpc = "newpage"
    /\ \/ Proceed("login", [handles EXCEPT !.page = "open"])
       \/ Proceed("finally", handles)

\* a failed login that leaves main at once
PerformLoginExits ==
    /\ mpc = "login"
    /\ \/ Proceed("head", handles)
       \/ Proceed("returned", handles)

\* page.goto(loginUrl), performLogin, if (!loginSuccess) throw
PerformLogin ==
    /\ mpc = "login"
    /\ \/ Proceed("head", handles)
       \/ Proceed("finally", handles)

\* finally: if (page) await page.close(); main awaits each close outside any
\* try, as a call that resolves
ClosePage ==
    /\ mpc \in {"finally", "finished"}
    /\ IF handles.page = "open"
       THEN Proceed("close_context", [handles EXCEPT !.page = "closed"])
       ELSE Proceed("close_context", handles)

\* if (context) await context.close()
CloseContext ==
    /\ mpc = "close_context"
    /\ IF handles.context = "open"
       THEN Proceed("close_browser", [handles EXCEPT !.context = "closed"])
       ELSE Proceed("close_browser", handles)

\* if (browser) await browser.close(); log.info('Browser closed')
CloseBrowser ==
    /\ mpc = "close_browser"
    /\ IF handles.browser = "open"
       THEN Proceed("returned", [handles EXCEPT !.browser = "closed"])
       ELSE Proceed("returned", handles)

\* i < combinations.length; const { grade, subject } = combinations[i]
StartIteration ==
    /\ mpc = "head"
    /\ loopIndex < Len(getFilterCombinations)
    /\ started' = Append(started, getFilterCombinations[loopIndex + 1])
    /\ iter' = [NoIteration EXCEPT !.skipAtStart = skipCount]
    /\ mpc' = "nav"
    /\ UNCHANGED <<loopIndex, nValue, downloadCount, successCount, skipCount, seen, strays>>
    /\ UNCHANGED outsideLoop

\* the loop ends; the totals are logged
LoopExit ==
    /\ mpc = "head"
    /\ ~(loopIndex < Len(getFilterCombinations))
    /\ mpc' = "finished"
    /\ UNCHANGED <<loopIndex, nValue, downloadCount, successCount, skipCount, started,
                   iter, seen, strays>>
    /\ UNCHANGED outsideLoop

\* skipCount++; continue  (the i++ of the for statement included)
SkipAndContinue(kind) ==
    /\ skipCount' = skipCount + 1
    /\ seen' = seen \cup {kind}
    /\ loopIndex' = loopIndex + 1
    /\ mpc' = "head"

\* const navSuccess = await navigateToFilteredPage(...); if (!navSuccess) ...
NavigateToFilteredPage ==
    /\ mpc = "nav"
    /\ \/ /\ mpc' = "click"
          /\ UNCHANGED <<loopIndex, skipCount, seen>>
       \/ SkipAndContinue("navigation")
       \/ /\ mpc' = "catch"          \* the awaited call rejects
          /\ UNCHANGED <<loopIndex, skipCount, seen>>
    /\ UNCHANGED <<nValue, downloadCount, successCount, started, iter, strays>>
    /\ UNCHANGED outsideLoop

\* const clickSuccess = await clickNthItem(page, nValue); if (!clickSuccess) ...
\* with clickNthItem (part_001 lines 83-120) inside
ClickNthItem ==
    /\ mpc = "click"
    /\ \/ /\ SkipAndContinue("click")      \* waitFor or count() throws: false
          /\ UNCHANGED iter
       \/ \E itemCount \in 0..MaxItems :
            IF OutOfRange(nValue, itemCount)
            THEN /\ iter' = [iter EXCEPT !.itemCount = itemCount]
                 /\ SkipAndContinue("click")
            ELSE \/ /\ iter' = [iter EXCEPT !.itemCount = itemCount,     \* clicked, navigated
                                            !.clicked = TRUE, !.nth = nValue - 1]
                    /\ mpc' = "download"
                    /\ UNCHANGED <<loopIndex, skipCount, seen>>
                 \/ /\ iter' = [iter EXCEPT !.itemCount = itemCount,     \* clicked, then
                                            !.clicked = TRUE, !.nth = nValue - 1]
                    /\ SkipAndContinue("click")      \* waitForNavigation throws: false
                 \/ /\ iter' = [iter EXCEPT !.itemCount = itemCount]     \* click() throws
                    /\ SkipAndContinue("click")
       \/ /\ mpc' = "catch"          \* the awaited call rejects
          /\ UNCHANGED <<loopIndex, skipCount, seen, iter>>
    /\ UNCHANGED <<nValue, downloadCount, successCount, started, strays>>
    /\ UNCHANGED outsideLoop

\* const downloadSuccess = await downloadPDF(...); if (downloadSuccess) { ... }
\* the call can leave the waitForEvent promise of Method 1 behind unawaited
DownloadPDF ==
    /\ mpc = "download"
    /\ iter' = [iter EXCEPT !.called = TRUE]
    /\ strays' \in {strays, TRUE}
    /\ \/ /\ downloadCount' = downloadCount + 1
          /\ successCount' = successCount + 1
          /\ loopIndex' = loopIndex + 1
          /\ mpc' = "head"
          /\ UNCHANGED seen
       \/ /\ seen' = seen \cup {"acquisition"}
          /\ loopIndex' = loopIndex + 1
          /\ mpc' = "head"
          /\ UNCHANGED <<downloadCount, successCount>>
       \/ /\ mpc' = "catch"          \* the awaited call rejects
          /\ UNCHANGED <<loopIndex, downloadCount, successCount, seen>>
    /\ UNCHANGED <<nValue, skipCount, started>>
    /\ UNCHANGED outsideLoop

\* a catch block that leaves the loop
CatchErrorBreaks ==
    /\ mpc = "catch"
    /\ skipCount' = skipCount + 1
    /\ seen' = seen \cup {"exception"}
    /\ mpc' = "finished"
    /\ UNCHANGED <<loopIndex, nValue, downloadCount, successCount, started, iter, strays>>
    /\ UNCHANGED outsideLoop

\* catch (error) { skipCount++; try { await page.goto(baseUrl) } catch { } }
CatchError ==
    /\ mpc = "catch"
    /\ SkipAndContinue("exception")
    /\ UNCHANGED <<nValue, downloadCount, successCount, started, iter, strays>>
    /\ UNCHANGED outsideLoop

\* process.on('unhandledRejection', ...): the rejection is logged
UnhandledRejection ==
    /\ mpc \in {"head", "nav", "click", "download", "catch"}
    /\ strays
    /\ strays' = FALSE
    /\ UNCHANGED <<mpc, loopIndex, nValue, downloadCount, successCount, skipCount,
                   started, iter, seen>>
    /\ UNCHANGED outsideLoop

NextMain ==
    \/ ValidateEnv
    \/ LaunchBrowser
    \/ NewContext
    \/ NewPage
    \/ PerformLogin
    \/ ClosePage
    \/ CloseContext
    \/ CloseBrowser
    \/ StartIteration
    \/ LoopExit
    \/ NavigateToFilteredPage
    \/ ClickNthItem
    \/ DownloadPDF
    \/ CatchError
    \/ UnhandledRejection

SpecMain == InitMain /\ [][NextMain]_vars

-----------------------------------------------------------------------------
(* ensureDirectoryExists (part_000 lines 316-323) called by several callers *)
(* at once: fs.access and fs.mkdir are separate awaits, so the calls        *)
(* interleave between them                                                  *)

NumCallers == 2
MaxCalls == 2

\* downloadDir, the parent of every date directory
RootDir == 0

\* fs.mkdir(dirPath) without { recursive: true }
MkdirPlain(fs, dirPath) ==
    IF dirPath \in fs THEN [fs |-> fs, err |-> "EEXIST"]
    ELSE IF RootDir \notin fs THEN [fs |-> fs, err |-> "ENOENT"]
    ELSE [fs |-> fs \cup {dirPath}, err |-> ""]

\* fs.mkdir(dirPath, { recursive: true }): creates the missing parents and
\* does not reject when the directory is already there
Mkdir(fs, dirPath) == [fs |-> fs \cup {RootDir, dirPath}, err |-> ""]

NoCall == [at |-> "idle", dirPath |-> RootDir, existed |-> FALSE, ranMkdir |-> FALSE,
           before |-> {}, err |-> "", calls |-> 0]

\* everything outside the ensureDirectoryExists calls and the filesystem
outsideRace == <<pc, result, args, today, page, filePath, attempted, succeeded, ret,
                 snap, resp, requests, writes, waiter1, waiter2, selIdx,
                 downloadTriggered, ui, gotMagic, resolverVars, hang, mainVars, logVars>>

InitRace ==
    /\ CallParked /\ ResolverIdle /\ hang = {} /\ MainIdle /\ LogIdle
    /\ dirs \in {{}, {RootDir}} \cup {{RootDir, d} : d \in Days}
    /\ callers = [c \in 1..NumCallers |-> NoCall]

\* ensureDirectoryExists(dirPath) is called
EnsureCall(c) ==
    /\ callers[c].at \in {"idle", "returned"}
    /\ callers[c].calls < MaxCalls
    /\ \E d \in Days :
         callers' = [callers EXCEPT ![c] = [at |-> "access", dirPath |-> d,
                                            existed |-> d \in dirs, ranMkdir |-> FALSE,
                                            before |-> dirs, err |-> "",
                                            calls |-> callers[c].calls + 1]]
    /\ UNCHANGED dirs
    /\ UNCHANGED outsideRace

\* try { await fs.access(dirPath) } catch { ... }
EnsureAccess(c) ==
    /\ callers[c].at = "access"
    /\ callers' = [callers EXCEPT ![c].at = IF callers[c].dirPath \in dirs
                                            THEN "returned" ELSE "mkdir"]
    /\ UNCHANGED dirs
    /\ UNCHANGED outsideRace

\* await fs.mkdir(dirPath, { recursive: true }); log.debug(...)
EnsureMkdir(c) ==
    /\ callers[c].at = "mkdir"
    /\ LET made == Mkdir(dirs, callers[c].dirPath)
       IN /\ dirs' = made.fs
          /\ callers' = [callers EXCEPT ![c].ranMkdir = TRUE,
                                        ![c].err = made.err,
                                        ![c].at = IF made.err = "" THEN "returned"
                                                  ELSE "rejected"]
    /\ UNCHANGED outsideRace

NextRace == \E c \in 1..NumCallers : EnsureCall(c) \/ EnsureAccess(c) \/ EnsureMkdir(c)

SpecRace == InitRace /\ [][NextRace]_vars

-----------------------------------------------------------------------------
(* The logger (utils/logger.js lines 8-75): getEnvLevel, createLogger and   *)
(* the four methods of the object it returns                                *)

MaxLogCalls == 3

LEVELS == << [name |-> "silent", rank |-> 0],
             [name |-> "error", rank |-> 1],
             [name |-> "warn", rank |-> 2],
             [name |-> "info", rank |-> 3],
             [name |-> "debug", rank |-> 4] >>

\* the values DEBUG and LOG_LEVEL are given; "" is the unset variable
DebugValues == {"", "true", "TRUE", "1", "false"}
LogLevelValues == {"", "off", "silent", "error", "warn", "info", "debug", "DEBUG", "Warn", "verbose"}

\* String(...).toLowerCase() on the values above
ToLowerCase(str) ==
    CASE str = "TRUE" -> "true"
      [] str = "DEBUG" -> "debug"
      [] str = "Warn" -> "warn"
      [] OTHER -> str

\* process.env.X || fallback
OrElse(value, fallback) == IF value = "" THEN fallback ELSE value

\* LEVELS.some(l => l.name === level)
LevelExists(level) == \E k \in 1..Len(LEVELS) : LEVELS[k].name = level

getEnvLevel(env) ==
    LET debugFlag == ToLowerCase(OrElse(env.DEBUG, ""))
        level == ToLowerCase(OrElse(env.LOG_LEVEL, "info"))
    IN IF debugFlag = "true" \/ debugFlag = "1" THEN "debug"
       ELSE IF LevelExists(level) THEN level ELSE "info"

\* LEVELS.find(l => l.name === name)?.rank ?? 3
RankOf(name) ==
    IF LevelExists(name)
    THEN LEVELS[CHOOSE k \in 1..Len(LEVELS) :
                    LEVELS[k].name = name /\ \A j \in 1..(k - 1) : LEVELS[j].name # name].rank
    ELSE 3

\* a comparison that leaves out the configured level itself
shouldLogStrict(levelName, limit) == RankOf(levelName) < limit

\* return rank <= threshold
shouldLog(levelName, limit) == RankOf(levelName) <= limit

\* everything outside the logger
outsideLog == <<callVars, resolverVars, hang, mainVars, raceVars>>

InitLog ==
    /\ CallParked /\ dirs = {} /\ ResolverIdle /\ hang = {} /\ MainIdle /\ RaceIdle
    /\ processEnv \in [DEBUG : DebugValues, LOG_LEVEL : LogLevelValues]
    /\ threshold = NoLogger
    /\ logCalls = <<>>

\* const envLevel = getEnvLevel(); const threshold = ...
CreateLogger ==
    /\ threshold = NoLogger
    /\ threshold' = RankOf(getEnvLevel(processEnv))
    /\ UNCHANGED <<processEnv, logCalls>>
    /\ UNCHANGED outsideLog

\* one method of the logger: if (!shouldLog(level)) return; console[stream](...)
LogMethod(levelName, stream) ==
    /\ threshold # NoLogger
    /\ Len(logCalls) < MaxLogCalls
    /\ logCalls' = Append(logCalls, [level |-> levelName, stream |-> stream,
                                     written |-> shouldLog(levelName, threshold)])
    /\ UNCHANGED <<processEnv, threshold>>
    /\ UNCHANGED outsideLog

LogInfo == LogMethod("info", "log")
LogWarn == LogMethod("warn", "warn")
LogError == LogMethod("error", "error")
LogDebug == LogMethod("debug", "log")

NextLog == CreateLogger \/ LogInfo \/ LogWarn \/ LogError \/ LogDebug

SpecLog == InitLog /\ [][NextLog]_vars

-----------------------------------------------------------------------------
(* One downloadPDF call in an environment that withholds some of the things *)
(* the call waits for; the event loop runs every continuation that is ready *)

\* the forms tried against a withholding environment
LiveForms == {f \in Forms : f.id = f.token}

InitLive ==
    /\ pc = "start" /\ result = "pending"
    /\ args \in [grade : Grades, subject : Subjects]
    /\ today = 1
    /\ page \in [form : LiveForms, dom : {{}, {"link"}}, urlId : {"42"}]
    /\ dirs = {1}
    /\ filePath = NoPath /\ attempted = <<>> /\ succeeded = 0 /\ ret = "none"
    /\ snap = NoSnap /\ resp = NoResp /\ requests = <<>> /\ writes = <<>>
    /\ waiter1 = "none" /\ waiter2 = "none" /\ selIdx = 1
    /\ downloadTriggered = FALSE /\ ui = <<>> /\ gotMagic = FALSE
    /\ ResolverIdle
    /\ hang \in SUBSET HangKinds
    /\ MainIdle
    /\ RaceIdle
    /\ LogIdle

SpecLive == InitLive /\ [][Next]_vars /\ WF_vars(Next)

-----------------------------------------------------------------------------
(* Properties                                                               *)

Tried(k) == \E i \in 1..Len(attempted) : attempted[i] = k

\* the artifact validator: non-empty, and a PDF content type or the %PDF signature
ArtifactValid(contentType, buffer) ==
    Len(buffer) > 0 /\ (IncludesPdf(contentType) \/ Head4(buffer) = Magic)

\* a form snapshot with no form, no id field or no token field
Lacking(fd) == fd.isNull \/ fd.id = "missing" \/ fd.token = "missing"

\* C1: once a strategy has persisted the file, no further strategy is
\* started in that downloadPDF call.
C1_NoStrategyAfterSuccess == [][succeeded # 0 => attempted' = attempted]_vars

C1_Witness == pc = "done" /\ result = "true" /\ succeeded = 2 /\ attempted = <<1, 2>>

\* C2: when the call has returned, every strategy 1..4 that was started and
\* did not succeed was followed by the next strategy.
C2_FailedStrategyIsFollowedByNext ==
    pc = "done" => \A k \in 1..4 : (Tried(k) /\ succeeded # k) => Tried(k + 1)

\* C3: the call returns false only after all five strategies were started.
C3_FalseOnlyAfterAllFive ==
    (pc = "done" /\ result = "false") => \A k \in 1..5 : Tried(k)

\* C4: every file written holds bytes the artifact validator accepts.
C4_WrittenBytesAreValid ==
    \A i \in 1..Len(writes) : ArtifactValid(writes[i].ctype, writes[i].body)

\* C5: Direct Replay accepts a successful response exactly when the artifact
\* validator accepts its content type and body.
C5_DirectReplayValidates ==
    (pc = "dp_ret" /\ ResponseOk(resp.status))
        => (resp.accepted <=> ArtifactValid(resp.ctype, resp.body))

\* C6: the call never ends in an exception: while it runs the result is
\* pending, and when it has ended the result is true or false.
C6_NeverThrows ==
    /\ result \in {"pending", "true", "false"}
    /\ pc = "done" <=> result \in {"true", "false"}

C6_Witness == pc = "done" /\ result = "false" /\ attempted = <<>> /\ dirs = {}

\* C7: a call in which no strategy obtained bytes with the %PDF signature
\* returns false and has written no file.
C7_NoSignatureNoFile ==
    (pc = "done" /\ ~gotMagic) => (result = "false" /\ writes = <<>>)

\* C8: when the snapshot read by Direct Replay has no form, no id or no
\* token, Direct Replay returns false with no request sent and no file
\* written, and the call goes on to Method 1.
C8_DirectReplayNotApplicable ==
    [][(pc = "dp_ret" /\ Lacking(snap))
          => /\ ret = "false" /\ requests = <<>> /\ writes = <<>>
             /\ requests' = <<>> /\ writes' = <<>>
             /\ pc' # pc => (pc' = "m1_listen" /\ result' = "pending")]_vars

C8_Witness ==
    /\ pc = "dp_ret" /\ ret = "false"
    /\ ~snap.isNull /\ snap.id = "42" /\ snap.token = "missing"
    /\ requests = <<>>

\* C9: no download POST is sent from a snapshot without id or token.
C9_NoPostFromLackingSnapshot ==
    \A i \in 1..Len(requests) :
        requests[i].method = "POST" => ~Lacking(requests[i].form)

\* C10: the strategies started in one call are strictly increasing in the
\* priority order 1 < 2 < 3 < 4 < 5.
C10_StrictlyIncreasing ==
    \A i, j \in 1..Len(attempted) : i < j => attempted[i] < attempted[j]

C10_Witness == pc = "done" /\ attempted = <<1, 2, 3, 5>> /\ result = "true"

\* C11: a call writes at most one file, and a call that returned true has
\* written exactly one, by the strategy that succeeded.
C11_AtMostOneWrite ==
    /\ Len(writes) <= 1
    /\ (pc = "done" /\ result = "true") => (Len(writes) = 1 /\ writes[1].by = succeeded)

C11_Witness == pc = "done" /\ result = "true" /\ Len(writes) = 1 /\ writes[1].by = 4

\* C13: every file is written to the path resolved at the start of the call.
C13_WritesGoToResolvedPath ==
    \A i \in 1..Len(writes) : writes[i].path = filePath

\* C19: when a strategy starts, and when the call has returned, no
\* download-event wait registered earlier in the call is still un-awaited.
C19_NoWaitLeftBehind ==
    pc \in {"m2_click", "ex_scan", "alt_snapshot", "done"}
        => (waiter1 # "pending" /\ waiter2 # "pending")

\* Scenario A: the form holds id "42" and token "abc" and the replay endpoint
\* answered 200, application/pdf, a body that starts with %PDF; seen when
\* downloadPDFViaDirectPost has returned and when the call has returned.
ScenarioAReplayed ==
    /\ pc = "dp_ret"
    /\ snap = [isNull |-> FALSE, id |-> "42", token |-> "abc"]
    /\ resp.status = 200 /\ IncludesPdf(resp.ctype) /\ Head4(resp.body) = Magic

ScenarioAReturned ==
    /\ pc = "done"
    /\ Len(requests) >= 1
    /\ requests[1] = [by |-> 1, method |-> "POST", status |-> 200,
                      form |-> [isNull |-> FALSE, id |-> "42", token |-> "abc"]]
    /\ Len(writes) >= 1 /\ writes[1].by = 1
    /\ IncludesPdf(writes[1].ctype) /\ Head4(writes[1].body) = Magic

\* <root>/<day>/<grade>-<subject>-<day>-42.pdf, <day> the date the call started on
WrittenWithId42 ==
    /\ Len(writes) = 1
    /\ writes[1].by = 1
    /\ writes[1].path =
          [dir |-> filePath.dir,
           name |-> <<args.grade, "-", args.subject, "-", <<"day", filePath.dir>>,
                      "-", "42", ".pdf">>]

\* C14 as stated: in scenario A the call returns true via Direct Replay alone
\* and the file is <root>/<day>/<grade>-<subject>-<day>-42.pdf.
C14_ScenarioA_AsStated ==
    /\ ScenarioAReplayed => (ret = "true" /\ attempted = <<1>> /\ WrittenWithId42)
    /\ ScenarioAReturned => (result = "true" /\ attempted = <<1>> /\ WrittenWithId42)

\* C14 amended: the same, when the address of the page carries id=42; the
\* suffix of the file name is the id of the page address, not of the form.
C14_ScenarioA ==
    /\ (ScenarioAReplayed /\ page.urlId = "42")
          => (ret = "true" /\ attempted = <<1>> /\ WrittenWithId42)
    /\ (ScenarioAReturned /\ page.urlId = "42")
          => (result = "true" /\ attempted = <<1>> /\ WrittenWithId42)
    /\ (ScenarioAReturned /\ page.urlId = "")
          => (result = "true" /\ attempted = <<1>>
              /\ writes[1].path.name = <<args.grade, "-", args.subject, "-",
                                         <<"day", filePath.dir>>, ".pdf">>)

C14_Witness == ScenarioAReturned /\ page.urlId = "42" /\ result = "true" /\ WrittenWithId42

\* Scenario B up to the save shortcut: the replay endpoint answered 500, the
\* wait of Method 1 ended without a download, the page after the click holds
\* an embed tag, no viewer control was clicked and the shortcut was sent.
ScenarioBTrace ==
    /\ Len(requests) = 1 /\ requests[1].by = 1 /\ requests[1].status = 500
    /\ waiter1 = "settled"
    /\ "embed" \in page.dom
    /\ ui = << [kind |-> "listen", by |-> 2, sel |-> 0],
               [kind |-> "button", by |-> 2, sel |-> 0],
               [kind |-> "button", by |-> 3, sel |-> 0],
               [kind |-> "listen", by |-> 3, sel |-> 0],
               [kind |-> "key", by |-> 3, sel |-> 0] >>

\* C15: in scenario B the download event is awaited after the shortcut, and
\* once it has arrived and is saved the call returns true via Viewer
\* Interaction with neither extraction nor HTTP replication started.
C15_ScenarioB ==
    /\ (ScenarioBTrace /\ pc = "m2_await")
          => (downloadTriggered /\ waiter2 = "pending" /\ attempted = <<1, 2, 3>>)
    /\ (ScenarioBTrace /\ succeeded = 3)
          => /\ pc \in {"m2_ret", "done"}
             /\ pc = "done" => result = "true"
             /\ attempted = <<1, 2, 3>>
             /\ Len(writes) = 1 /\ writes[1].by = 3 /\ writes[1].path = filePath

C15_Witness ==
    ScenarioBTrace /\ pc = "done" /\ result = "true" /\ succeeded = 3 /\ attempted = <<1, 2, 3>>

\* the calendar day of an instant in the local time zone
LocalDay(hour, tz) == (hour + tz) \div 24

C16_EventuallyReturns == <>(pc = "done")

\* C17: main processes every grade x subject combination, 6 x 4 = 24, each
\* exactly once and grade-major; no failed navigation, failed click, failed
\* acquisition or exception keeps the loop from the later combinations.
C17_EveryCombinationProcessed ==
    /\ Len(started) = loopIndex + (IF mpc \in {"nav", "click", "download", "catch"} THEN 1 ELSE 0)
    /\ \A k \in 1..Len(started) :
           started[k] = [grade |-> GRADES[((k - 1) \div 4) + 1],
                         subject |-> SUBJECTS[((k - 1) % 4) + 1]]
    /\ mpc = "finished" => Len(started) = 24

C17_Witness ==
    /\ mpc = "finished"
    /\ seen = {"navigation", "click", "acquisition", "exception"}
    /\ successCount > 0
    /\ Len(started) = 24

\* C18: a list with fewer items than N is skipped: no item is clicked,
\* downloadPDF is not called, skipCount is incremented; an item is only
\* clicked at a 1-based index n with 1 <= n <= itemCount.
C18_ShortListIsSkipped ==
    /\ iter.clicked => (1 <= iter.nth + 1 /\ iter.nth + 1 <= iter.itemCount)
    /\ (iter.itemCount >= 0 /\ iter.itemCount < nValue)
           => /\ ~iter.clicked
              /\ ~iter.called
              /\ mpc \in {"head", "finished", "close_context", "close_browser",
                         "returned"}
              /\ skipCount = iter.skipAtStart + 1

C18_Witness ==
    /\ iter.itemCount = 1 /\ nValue = 2
    /\ ~iter.clicked /\ ~iter.called
    /\ skipCount = iter.skipAtStart + 1
    /\ successCount > 0

\* C20: ensureDirectoryExists is an idempotent, concurrent-safe
\* create-if-missing: under every interleaving of the calls no call fails,
\* the directory exists once a call has returned, and a call on a directory
\* that already exists creates nothing.
C20_EnsureIsConcurrentSafe ==
    \A c \in 1..Len(callers) :
        /\ callers[c].at # "rejected"
        /\ callers[c].at = "returned" => callers[c].dirPath \in dirs
        /\ callers[c].existed => (callers[c].at # "mkdir" /\ ~callers[c].ranMkdir)
        /\ callers[c].at # "idle" => callers[c].before \subseteq dirs

\* both calls found the directory missing and both ran mkdir
C20_Witness ==
    /\ Len(callers) >= 2
    /\ callers[1].dirPath = callers[2].dirPath
    /\ callers[1].at = "returned" /\ callers[2].at = "returned"
    /\ callers[1].ranMkdir /\ callers[2].ranMkdir
    /\ callers[1].before = {} /\ callers[2].before = {}

\* C21: Full HTTP Replication validates its response with the check of
\* Direct Replay: it accepts a response exactly when Direct Replay's check
\* (response.ok() and PDF content type or %PDF head) accepts it.
C21_SameCheckAsDirectReplay ==
    (pc = "alt_ret" /\ resp # NoResp)
        => (resp.accepted = (ResponseOk(resp.status) /\ DirectAccepts(resp.ctype, resp.body)))

\* the position of a level in an order of levels, lowest first
PlaceIn(order, name) == CHOOSE k \in 1..Len(order) : order[k] = name

\* the verbosity the documentation promises for the environment
DocumentedVerbosity ==
    IF processEnv.DEBUG = "true" THEN "debug"
    ELSE IF processEnv.LOG_LEVEL = "" THEN "info"
    ELSE processEnv.LOG_LEVEL

EmitsByOrder(order) ==
    \A k \in 1..Len(logCalls) :
        logCalls[k].written
            <=> PlaceIn(order, logCalls[k].level) <= PlaceIn(order, DocumentedVerbosity)

\* C22 as stated: a message of level L is emitted iff L is at most the
\* configured verbosity in the order off < error < warn < info < debug;
\* with LOG_LEVEL=off nothing is emitted.
C22_OrderWithOff ==
    (processEnv.DEBUG \in {"", "true"}
        /\ DocumentedVerbosity \in {"off", "error", "warn", "info", "debug"})
        => EmitsByOrder(<<"off", "error", "warn", "info", "debug">>)

\* C22 amended: the lowest verbosity is named silent; a message of level L is
\* emitted iff L is at most the configured verbosity in the order
\* silent < error < warn < info < debug, and with silent nothing is emitted.
C22_OrderWithSilent ==
    (processEnv.DEBUG \in {"", "true"}
        /\ DocumentedVerbosity \in {"silent", "error", "warn", "info", "debug"})
        => EmitsByOrder(<<"silent", "error", "warn", "info", "debug">>)

C22_Witness ==
    /\ processEnv = [DEBUG |-> "", LOG_LEVEL |-> "silent"]
    /\ Len(logCalls) = 3
    /\ {logCalls[k].level : k \in 1..3} = {"error", "warn", "debug"}
    /\ \A k \in 1..3 : ~logCalls[k].written

\* a download listener of strategy k was registered before entry j of the log
ListenedBefore(k, j) == \E n \in 1..(j - 1) : ui[n].kind = "listen" /\ ui[n].by = k

\* C23: in Native Event Capture the download listener is registered before
\* the trigger button is clicked; in Viewer Interaction a listener is
\* registered before any viewer control is clicked or the shortcut is sent.
C23_ListenerBeforeTrigger ==
    \A j \in 1..Len(ui) :
        /\ (ui[j].kind = "button" /\ ui[j].by = 2) => ListenedBefore(2, j)
        /\ ui[j].kind \in {"viewer", "key"} => ListenedBefore(3, j)

C23_Witness ==
    /\ \E j \in 1..Len(ui) : ui[j].kind = "button" /\ ui[j].by = 2
    /\ \E j \in 1..Len(ui) : ui[j].kind = "key" /\ ui[j].by = 3
    /\ pc = "done"

\* entries of the log by kind
UiOf(kinds) == {n \in 1..Len(ui) : ui[n].kind \in kinds}

\* the viewer page was detected, and the call is past the given steps
ViewerPast(steps) == UiOf({"listen"}) # {} /\ (\E n \in UiOf({"listen"}) : ui[n].by = 3)
                         /\ pc \notin steps

\* C24 as stated: only the first selector that matches is clicked and later
\* ones are not probed; the shortcut is sent iff no selector led to a
\* click; the download event is awaited iff a sub-step triggered a download.
C24_FirstMatchOnly ==
    /\ \A n \in UiOf({"viewer", "viewer_failed"}) : selIdx <= ui[n].sel
    /\ ViewerPast({"m2_probe", "m2_hotkey"})
           => (UiOf({"key"}) # {} <=> UiOf({"viewer"}) = {})
    /\ ViewerPast({"m2_probe", "m2_hotkey", "m2_await"})
           => (waiter2 = "settled" <=> UiOf({"viewer", "key"}) # {})

\* C24 amended: the selectors are probed in list order until the click on a
\* match succeeds, and none is probed after that click; the shortcut is
\* attempted iff no click succeeded; the download event is awaited iff a
\* click or the shortcut succeeded.
C24_FirstSuccessfulClickOnly ==
    /\ \A n \in UiOf({"viewer"}) :
           /\ selIdx = ui[n].sel
           /\ \A m \in UiOf({"viewer", "viewer_failed"}) : m # n => (m < n /\ ui[m].sel < ui[n].sel)
    /\ \A n \in UiOf({"viewer_failed"}) : ui[n].sel < selIdx
    /\ ViewerPast({"m2_probe", "m2_hotkey"})
           => (UiOf({"key", "key_failed"}) # {} <=> UiOf({"viewer"}) = {})
    /\ ViewerPast({"m2_probe", "m2_hotkey", "m2_await"})
           => (waiter2 = "settled" <=> UiOf({"viewer", "key"}) # {})

C24_Witness ==
    /\ \E n \in UiOf({"viewer_failed"}) : ui[n].sel = 1
    /\ \E n \in UiOf({"viewer"}) : ui[n].sel = 3
    /\ waiter2 = "settled"
    /\ pc = "done"

\* the element kinds of the scan, highest priority first
ScanPriority == <<"embed", "iframe", "object", "link">>

\* an element of the kind is on the page, and the address it carries
OnPage(dom, kind) ==
    kind \in dom \/ (kind = "embed" /\ "embed_empty" \in dom)
                 \/ (kind = "object" /\ "object_empty" \in dom)

AddressOn(dom, kind) ==
    CASE kind = "embed" -> IF "embed_empty" \in dom THEN "" ELSE "u_embed"
      [] kind = "iframe" -> "u_iframe"
      [] kind = "object" -> IF "object_empty" \in dom THEN "" ELSE "u_object"
      [] kind = "link" -> "u_link"

\* the address of the first kind, in priority order, that is on the page
FirstByPriority(dom) ==
    IF \E k \in 1..Len(ScanPriority) : OnPage(dom, ScanPriority[k])
    THEN AddressOn(dom, ScanPriority[CHOOSE k \in 1..Len(ScanPriority) :
                           /\ OnPage(dom, ScanPriority[k])
                           /\ \A j \in 1..(k - 1) : ~OnPage(dom, ScanPriority[j])])
    ELSE ""

RequestsBy(k) == {n \in 1..Len(requests) : requests[n].by = k}

\* C25: the DOM scan returns the first match in the order embed > iframe >
\* object > hyperlink; when nothing matches or the match has an empty URL,
\* Resource-URL Extraction sends no request, writes no file, returns false.
C25_ScanByPriority ==
    /\ \A n \in RequestsBy(4) : requests[n].url = FirstByPriority(page.dom)
    /\ pc = "ex_get" => FirstByPriority(page.dom) # ""
    /\ (Tried(4) /\ FirstByPriority(page.dom) = "")
           => /\ RequestsBy(4) = {}
              /\ \A n \in 1..Len(writes) : writes[n].by # 4
              /\ pc \in {"ex_ret", "done"}
              /\ pc = "ex_ret" => ret = "false"
              /\ pc = "done" => result = "false"

C25_Witness ==
    /\ page.dom = {"iframe", "object"}
    /\ \E n \in RequestsBy(4) : requests[n].url = "u_iframe"
    /\ pc = "done" /\ result = "true"

\* C26: Direct Replay performs no UI interaction: until Direct Replay has
\* finished no click and no key press is issued on the page, and a call that
\* succeeds via Direct Replay has issued none at all.
C26_DirectReplayTouchesNoUi ==
    /\ pc \in {"start", "resolve", "dp_snapshot", "dp_send", "dp_ret"} => ui = <<>>
    /\ (pc = "done" /\ succeeded = 1) => ui = <<>>

C26_Witness ==
    /\ pc = "done" /\ result = "true" /\ succeeded = 1
    /\ Len(requests) = 1 /\ requests[1].by = 1
    /\ ui = <<>>

\* C27: every processed combination is counted exactly once: between two
\* iterations and at the end of the run successCount + skipCount is the
\* number of combinations processed, and downloadCount = successCount.
C27_EveryCombinationCounted ==
    /\ mpc \in {"head", "finished"} => successCount + skipCount = loopIndex
    /\ downloadCount = successCount

\* C28: at most one of Resource-URL Extraction and Full HTTP Replication is
\* attempted in a call, downloadPDF returns the result of the one attempted,
\* and Full HTTP Replication runs only after Viewer Interaction raised an
\* error before extraction started.
C28_ExtractionOrReplication ==
    /\ ~(Tried(4) /\ Tried(5))
    /\ Tried(5) => Tried(3)
    /\ (pc = "done" /\ Tried(4)) => result = (IF succeeded = 4 THEN "true" ELSE "false")
    /\ (pc = "done" /\ Tried(5)) => result = (IF succeeded = 5 THEN "true" ELSE "false")
    /\ pc = "ex_ret" => ret = (IF succeeded = 4 THEN "true" ELSE "false")
    /\ pc = "alt_ret" => ret = (IF succeeded = 5 THEN "true" ELSE "false")

C28_Witness ==
    /\ pc = "done" /\ result = "true"
    /\ attempted = <<1, 2, 3, 5>>
    /\ succeeded = 5

\* main has completed: its promise is settled
MainCompleted == mpc = "returned"

====
